---- MODULE Spec2Model ----
(***************************************************************************)
(* push-saas-metrics: the history-reconstruction engine of git_metrics.py  *)
(* (GitMetrics, SaasGitMetrics) and the loop of push-saas-metrics.py over  *)
(* the deployment repositories, as a state machine.                        *)
(*                                                                         *)
(* Strings are sequences of one-character strings, so that len(),          *)
(* startswith(), endswith(), split() and format() are computed, not        *)
(* assumed.  A Python dict is a function whose DOMAIN is its key set.      *)
(***************************************************************************)
EXTENDS Integers, Sequences, FiniteSets, TLC

VARIABLES
    history,            \* deployment repository: commits, oldest first; HEAD is the last
    upstream,           \* upstream repository: commit hashes, oldest first; HEAD is the last
    pc,                 \* position of the processing of the deployment repository
    error,              \* the exception that ended the processing, "none" otherwise
    contexts,           \* self.contexts
    services_head,      \* services_hash_history: services_head
    services_history,   \* services_hash_history: services_history
    services_found,     \* services_hash_history: services_found
    index,              \* services_hash_history: index of the loop over itertools.count(1)
    snapshot,           \* the outcome of the last call of services(commit): [err, val]
    snap_commit,        \* the offset i of that call's commit HEAD~i, -1 before any call
    fs,                 \* the cache directory: work_dir -> [kind, marker]
    pid,                \* os.getpid() of the running process
    runs,               \* processes started so far on this cache directory
    establishments,     \* GitMetrics constructions of the running process
    refreshes,          \* refreshes the running process has completed
    net_ops,            \* clone, fetch and pull commands the running process has run
    last,               \* the last GitMetrics construction: [op, exit, result]
    pending,            \* pool.map: the upstream URLs no worker has taken yet
    workers,            \* pool.map: worker -> [phase, url, path]
    repo_metrics,       \* services_with_info: repo_metrics, URL -> [work_dir, bare]
    service_urls,       \* services_with_info: the `url` of every service of the head snapshot
    opened,             \* services_with_info: URL -> calls of fetch_repo_metrics on it
    apps,               \* __main__: gql.query(query)['apps'] of get_saas_repos
    processed,          \* __main__: the iterations of the loop so far, [saas_repo, outcome]
    gauges,             \* __main__: the samples of the three service gauges, by labels
    g_invalid_repos,    \* __main__: the samples of saas_invalid_repos, by saas_repo_url
    build_error,        \* __main__: error
    exit_status         \* __main__: the exit status of the process, -1 while it runs

walkvars == <<history, upstream, pc, error, contexts, services_head,
              services_history, services_found, index, snapshot, snap_commit>>

mirrorvars == <<fs, pid, runs, establishments, refreshes, net_ops, last>>

poolvars == <<pending, workers, repo_metrics, service_urls, opened>>

mainvars == <<apps, processed, gauges, g_invalid_repos, build_error, exit_status>>

vars == <<history, upstream, pc, error, contexts, services_head,
          services_history, services_found, index, snapshot, snap_commit,
          fs, pid, runs, establishments, refreshes, net_ops, last,
          pending, workers, repo_metrics, service_urls, opened,
          apps, processed, gauges, g_invalid_repos, build_error, exit_status>>

-----------------------------------------------------------------------------
(* Bounds *)

MaxCommits == 3         \* commits of the deployment repository
MaxCatalogCommits == 2  \* commits of the deployment repository, where the catalog is the subject
MaxEstablish == 3       \* GitMetrics constructions of one process
MaxRuns == 2            \* processes run one after the other on one cache directory
MaxPid == 2             \* process identifiers 1..MaxPid
MaxPool == 2            \* threads of the pool
MaxUpstream == 10       \* commits of the upstream repository, where count is the subject
WalkUpstream == 2       \* commits of the upstream repository, where the walk is the subject
MaxApps == 2            \* apps of the answer to the discovery query

(* Program constants *)

ShaLen == 40
SliceEnd == 2           \* the slice [:2] of the list the main loop iterates over

-----------------------------------------------------------------------------
(* Strings *)

Str(c, n) == [i \in 1..n |-> c]
Sha(c) == Str(c, ShaLen)

HexDigits == {"0", "1", "2", "3", "4", "5", "6", "7", "8", "9",
              "a", "b", "c", "d", "e", "f"}

IsHexSha(h) == Len(h) = ShaLen /\ \A i \in 1..Len(h) : h[i] \in HexDigits

EndsWith(s, suffix) ==
    /\ Len(s) >= Len(suffix)
    /\ SubSeq(s, Len(s) - Len(suffix) + 1, Len(s)) = suffix

DotGit == <<".", "g", "i", "t">>

\* the scheme and host of a URL are kept as one unit
GithubPrefix == "https://github.com/"
GitlabPrefix == "https://gitlab.cee.redhat.com/"

_canonicalize_url(repo) ==
    LET stripped == IF repo[Len(repo)] = "/" THEN SubSeq(repo, 1, Len(repo) - 1)
                    ELSE repo
    IN  IF EndsWith(stripped, DotGit) THEN stripped ELSE stripped \o DotGit

is_sha(h) == Len(h) = ShaLen

-----------------------------------------------------------------------------
(* Values of the model's inputs *)

PinA == Sha("a")
PinB == Sha("b")
PinOdd == Sha("z")                              \* 40 characters, not hexadecimal
PinBranch == <<"m", "a", "s", "t", "e", "r">>
PinEmpty == <<>>
PinNone == <<"n", "o", "n", "e">>
PinMissing == Sha("1")                          \* 40 hex digits, no commit of the upstream

IdChars == <<"1", "2", "3", "4">>
CommitId(i) == Sha(IdChars[i])
CommitTs(i) == 1000 + i

UpChars == <<"a", "b", "c", "d", "e", "f", "0", "5", "6", "7", "8", "9">>
UpstreamLog(n) == [i \in 1..n |-> Sha(UpChars[i])]

UrlUp == <<GithubPrefix, "o", "/", "u">>
UrlSelf == <<GithubPrefix, "o", "/", "s", "/">>

Dirs == {"d1", "d2"}

\* an element of a `services` sequence that is a mapping with the keys of d
Mapping(d) == [mapping |-> TRUE, d |-> d]

Element(name, pin) == Mapping([name |-> name, url |-> UrlUp, hash |-> pin])

ServicesFile(list) == [kind |-> "dict", services |-> list]

EmptyDict == [k \in {} |-> ""]

DictPut(d, k, v) == [x \in DOMAIN d \cup {k} |-> IF x = k THEN v ELSE d[x]]

Range(f) == {f[x] : x \in DOMAIN f}

-----------------------------------------------------------------------------
(* Query: read-only git queries against a linear repository *)

HeadRef == <<"H", "E", "A", "D">>

\* the commits reachable from commit i: i, its parent i - 1, ... down to the root
RECURSIVE RevList(_)
RevList(i) == IF i <= 1 THEN {i} ELSE {i} \cup RevList(i - 1)

\* rev-parse: the position in the log a reference resolves to, 0 when it does not.
\* HEAD and the fetched branch resolve to the last commit, a hash to its commit.
rev_parse(log, ref) ==
    IF ref = HeadRef \/ ref = <<"m", "a", "s", "t", "e", "r">>
    THEN Len(log)
    ELSE IF \E i \in 1..Len(log) : log[i] = ref
         THEN CHOOSE i \in 1..Len(log) : log[i] = ref
         ELSE 0

\* rev-list --max-parents=0 HEAD
FirstCommit(log) == CHOOSE i \in RevList(Len(log)) : i - 1 \notin RevList(Len(log))

\* the exit status of `git rev-parse -q ref` is 0: the reference names a
\* commit, or it is a string of 40 hexadecimal digits, which git takes for an
\* object name without looking the object up
rev_parse_ok(log, ref) == rev_parse(log, ref) # 0 \/ IsHexSha(ref)

\* count(ref) raises GitCommandError: rev_parse has accepted ref (lines
\* 94-96), and rev-list fails on an object the repository lacks (line 105)
count_raises(log, ref) == rev_parse_ok(log, ref) /\ rev_parse(log, ref) = 0

\* count with `rev-list commit --count` in the place of lines 98-103
count_all(log, ref) ==
    LET commit == IF ~rev_parse_ok(log, ref) THEN rev_parse(log, HeadRef)
                  ELSE rev_parse(log, ref)
    IN  Cardinality(RevList(commit))

\* the int count(ref) returns, when it does not raise
count(log, ref) ==
    LET commit == IF ~rev_parse_ok(log, ref) THEN rev_parse(log, HeadRef)
                  ELSE rev_parse(log, ref)
        first_commit == FirstCommit(log)
    IN  Cardinality(RevList(commit) \ RevList(first_commit))

\* the deployment repository: HEAD~i, for 0 <= i < Len(history)
Ancestor(i) == history[Len(history) - i]

ls_files_dir(commit, path) ==
    IF path \in DOMAIN commit.tree THEN commit.tree[path] ELSE <<>>

-----------------------------------------------------------------------------
(* Catalog *)

\* A file is [kind, services]: what `git show` and yaml.safe_load make of it.
\*   "git_error"      git show fails                      (GitCommandError)
\*   "scanner_error"  yaml.scanner.ScannerError
\*   "parser_error"   another yaml.YAMLError, which get_services does not catch
\*   "not_dict"       a scalar or a sequence
\*   "no_services"    a mapping without the key `services`
\*   "not_list"       a mapping whose `services` is not a sequence
\*   "dict"           a mapping whose `services` is the sequence in .services
\* An element of the sequence is [mapping, d]: d is the dict when it is a mapping.
get_services(file) ==
    CASE file.kind \in {"git_error", "scanner_error"} -> [err |-> "none", val |-> <<>>]
      [] file.kind = "parser_error" -> [err |-> "YAMLError", val |-> <<>>]
      [] file.kind = "not_dict" -> [err |-> "none", val |-> <<>>]
      [] file.kind = "no_services" -> [err |-> "none", val |-> <<>>]
      [] file.kind = "not_list" -> [err |-> "none", val |-> <<>>]
      [] OTHER -> [err |-> "none", val |-> file.services]

RECURSIVE AddElements(_, _, _)
AddElements(acc, cname, elems) ==
    IF acc.err # "none" \/ elems = <<>> THEN acc
    ELSE LET service == Head(elems)
         IN  IF ~service.mapping THEN [acc EXCEPT !.err = "TypeError"]
             ELSE IF "name" \notin DOMAIN service.d THEN [acc EXCEPT !.err = "KeyError"]
             ELSE AddElements(
                    [acc EXCEPT !.val = DictPut(acc.val, <<cname, service.d.name>>, service.d)],
                    cname, Tail(elems))

RECURSIVE AddFiles(_, _, _)
AddFiles(acc, cname, files) ==
    IF acc.err # "none" \/ files = <<>> THEN acc
    ELSE LET found == get_services(Head(files))
         IN  IF found.err # "none" THEN [acc EXCEPT !.err = found.err]
             ELSE AddFiles(AddElements(acc, cname, found.val), cname, Tail(files))

RECURSIVE AddContexts(_, _, _)
AddContexts(acc, ctxs, commit) ==
    IF acc.err # "none" \/ ctxs = <<>> THEN acc
    ELSE LET c == Head(ctxs)
         IN  AddContexts(AddFiles(acc, c.name, ls_files_dir(commit, c.services_dir)),
                         Tail(ctxs), commit)

\* services(commit) with self.contexts = ctxs: [err, val], val the dict
\* {(context, service_name): service}
services(ctxs, commit) ==
    AddContexts([err |-> "none", val |-> EmptyDict], ctxs, commit)

-----------------------------------------------------------------------------
(* Mirror: GitMetrics.__init__, clone_or_pull, clone, pull *)

Err(e) == [err |-> e, val |-> <<>>]
Ok(v) == [err |-> "none", val |-> v]

SlashAt(s) == {i \in 1..Len(s) : s[i] = "/"}

\* _short_repo: [err, val], val the name of the directory under the cache
_short_repo(repo) ==
    IF repo[1] \notin {GitlabPrefix, GithubPrefix} THEN Err("Exception")
    ELSE LET provider == IF repo[1] = GitlabPrefix THEN "gitlab" ELSE "github"
             short == _canonicalize_url(Tail(repo))
         IN  IF Cardinality(SlashAt(short)) # 1 THEN Err("Exception")
             ELSE LET at == CHOOSE i \in SlashAt(short) : TRUE
                      org == SubSeq(short, 1, at - 1)
                      name == SubSeq(short, at + 1, Len(short))
                  IN  IF ~EndsWith(name, DotGit) THEN Err("AssertionError")
                      ELSE Ok(<<provider, "-">> \o org \o <<"-">>
                              \o SubSeq(name, 1, Len(name) - Len(DotGit)))

\* A directory of the cache is [kind, marker]: kind is "none" (no directory),
\* "bare" or "working"; marker is the process id in git_metrics_ts_pull under
\* its git directory, 0 when there is no such file.
NoDir == [kind |-> "none", marker |-> 0]

Kind(bare) == IF bare THEN "bare" ELSE "working"

\* os.path.isdir(self.git_dir): work_dir for a bare mirror, work_dir/.git otherwise
GitDirExists(d, bare) == IF bare THEN d.kind # "none" ELSE d.kind = "working"

\* clone(): git refuses a destination that exists; the exit status of
\* subprocess.call is dropped
clone(d, bare, ok) ==
    IF d.kind # "none"
    THEN [dir |-> d, op |-> "clone", exit |-> 128, raised |-> FALSE, net |-> 0, refreshed |-> 0]
    ELSE IF ok
    THEN [dir |-> [kind |-> Kind(bare), marker |-> 0],
          op |-> "clone", exit |-> 0, raised |-> FALSE, net |-> 1, refreshed |-> 0]
    ELSE [dir |-> d, op |-> "clone", exit |-> 128, raised |-> FALSE, net |-> 1, refreshed |-> 0]

\* pull() without the write of git_metrics_ts_pull (lines 79-80)
pull_unmarked(d, bare, p, ok1, ok2) ==
    IF d.kind = Kind(bare) /\ d.marker = p
    THEN [dir |-> d, op |-> "skip", exit |-> 0, raised |-> FALSE, net |-> 0, refreshed |-> 0]
    ELSE IF d.kind # Kind(bare) \/ ~ok1 \/ (bare /\ ~ok2)
    THEN [dir |-> d, op |-> "pull", exit |-> 1, raised |-> TRUE, net |-> 1, refreshed |-> 0]
    ELSE [dir |-> d, op |-> "pull", exit |-> 0, raised |-> FALSE, net |-> 1, refreshed |-> 1]

\* lines 71-80 with the write of git_metrics_ts_pull (lines 79-80) ahead of
\* the git commands
refresh_marks_first(d, bare, p, ok1, ok2) ==
    IF d.kind # Kind(bare)
    THEN [dir |-> d, op |-> "pull", exit |-> 128, raised |-> TRUE, net |-> 0, refreshed |-> 0]
    ELSE IF ~ok1 \/ (bare /\ ~ok2)
    THEN [dir |-> [d EXCEPT !.marker = p],
          op |-> "pull", exit |-> 1, raised |-> TRUE, net |-> 1, refreshed |-> 0]
    ELSE [dir |-> [d EXCEPT !.marker = p],
          op |-> "pull", exit |-> 0, raised |-> FALSE, net |-> 1, refreshed |-> 1]

\* pull() after the test of the marker (lines 71-80): ok1 is the outcome of
\* fetch (pull for a working copy), ok2 that of update-ref
refresh(d, bare, p, ok1, ok2) ==
    IF d.kind # Kind(bare)
    THEN [dir |-> d, op |-> "pull", exit |-> 128, raised |-> TRUE, net |-> 0, refreshed |-> 0]
    ELSE IF ~ok1
    THEN [dir |-> d, op |-> "pull", exit |-> 1, raised |-> TRUE, net |-> 1, refreshed |-> 0]
    ELSE IF bare /\ ~ok2
    THEN [dir |-> d, op |-> "pull", exit |-> 1, raised |-> TRUE, net |-> 1, refreshed |-> 0]
    ELSE [dir |-> [d EXCEPT !.marker = p],
          op |-> "pull", exit |-> 0, raised |-> FALSE, net |-> 1, refreshed |-> 1]

\* the test of the marker (lines 61-69): the file is read from the git directory
PullSkips(d, bare, p) == d.kind = Kind(bare) /\ d.marker = p

\* pull() in the process p
pull(d, bare, p, ok1, ok2) ==
    IF PullSkips(d, bare, p)
    THEN [dir |-> d, op |-> "skip", exit |-> 0, raised |-> FALSE, net |-> 0, refreshed |-> 0]
    ELSE refresh(d, bare, p, ok1, ok2)

clone_or_pull(d, bare, p, ok1, ok2) ==
    IF ~GitDirExists(d, bare) THEN clone(d, bare, ok1) ELSE pull(d, bare, p, ok1, ok2)

NoEstablishment == [op |-> "none", exit |-> 0, result |-> "none"]

\* GitMetrics.__init__ in the running process: [dir, op, exit, result]
GitMetrics(repo, bare, ok1, ok2) ==
    LET work_dir == _short_repo(repo)
    IN  IF work_dir.err # "none"
        THEN [path |-> <<>>, dir |-> NoDir, op |-> "none", exit |-> 0,
              net |-> 0, refreshed |-> 0, result |-> work_dir.err]
        ELSE LET did == clone_or_pull(fs[work_dir.val], bare, pid, ok1, ok2)
             IN  [path |-> work_dir.val, dir |-> did.dir, op |-> did.op,
                  exit |-> did.exit, net |-> did.net, refreshed |-> did.refreshed,
                  result |-> IF did.raised THEN "GitCommandError" ELSE "returned"]

\* what a construction leaves behind
Established(made) ==
    /\ establishments' = establishments + 1
    /\ fs' = IF made.path = <<>> THEN fs ELSE [fs EXCEPT ![made.path] = made.dir]
    /\ refreshes' = refreshes + made.refreshed
    /\ net_ops' = net_ops + made.net
    /\ last' = [op |-> made.op, exit |-> made.exit, result |-> made.result]
    /\ UNCHANGED <<pid, runs>>

\* GitMetrics(repo, bare=bare, cache=CACHE_DIR)
Establish(repo, bare, ok1, ok2) ==
    /\ establishments < MaxEstablish
    /\ Established(GitMetrics(repo, bare, ok1, ok2))
    /\ UNCHANGED <<walkvars, poolvars, mainvars>>

\* the process ends and the next one starts on the same cache directory
NewRun(p) ==
    /\ runs < MaxRuns
    /\ runs' = runs + 1
    /\ pid' = p
    /\ establishments' = 0
    /\ refreshes' = 0
    /\ net_ops' = 0
    /\ last' = NoEstablishment
    /\ UNCHANGED fs
    /\ UNCHANGED <<walkvars, poolvars, mainvars>>

Pids == 1..MaxPid

PathUp == _short_repo(UrlUp).val
PathSelf == _short_repo(UrlSelf).val

\* the cache directory before the process has run (cold) or as an earlier
\* process has left it (warm)
Cache(warm) ==
    [d \in {PathUp, PathSelf} |->
        IF ~warm THEN NoDir
        ELSE [kind |-> IF d = PathSelf THEN "working" ELSE "bare", marker |-> 0]]

MainIdle ==
    /\ apps = <<>>
    /\ processed = <<>>
    /\ gauges = EmptyDict
    /\ g_invalid_repos = EmptyDict
    /\ build_error = FALSE
    /\ exit_status = -1

PoolIdle ==
    /\ pending = {}
    /\ workers = <<>>
    /\ repo_metrics = EmptyDict
    /\ service_urls = {}
    /\ opened = EmptyDict

MirrorIdle ==
    /\ PoolIdle
    /\ \E warm \in BOOLEAN : fs = Cache(warm)
    /\ pid = 1
    /\ runs = 1
    /\ establishments = 0
    /\ refreshes = 0
    /\ net_ops = 0
    /\ last = NoEstablishment

-----------------------------------------------------------------------------
(* SaasGitMetrics: the processing of one deployment repository *)

Self == _canonicalize_url(UrlSelf)

\* repo_metrics[url]: the log of the repository behind a canonical URL
RepoLog(url) ==
    IF url = Self THEN [i \in 1..Len(history) |-> history[i].id] ELSE upstream

\* SaasGitMetrics.__init__: establish the working mirror, read config.yaml
\* at HEAD (git show fails when there is no local copy).  ok1, ok2 are the
\* outcomes of the git commands of clone_or_pull.
Construct(ok1, ok2) ==
    /\ pc = "start"
    /\ LET made == GitMetrics(UrlSelf, FALSE, ok1, ok2)
           config == Ancestor(0).config
       IN  /\ Established(made)
           /\ IF made.result # "returned"
              THEN pc' = "raised" /\ error' = made.result /\ contexts' = contexts
              ELSE IF made.dir.kind # "working" \/ ~config.ok
              THEN pc' = "raised" /\ error' = "SaasConfigReadError" /\ contexts' = contexts
              ELSE pc' = "constructed" /\ error' = error /\ contexts' = config.contexts
    /\ UNCHANGED <<history, upstream, services_head, services_history,
                   services_found, index, snapshot, snap_commit, poolvars, mainvars>>

\* the loop of services_with_info over services.items(), one service
WithInfo(context_name, service) ==
    LET url == _canonicalize_url(service.url)
        h == IF service.hash = <<>> THEN HeadRef ELSE service.hash
    IN  [name |-> service.name,
         url |-> service.url,
         hash |-> service.hash,
         context |-> context_name,
         commit |-> Ancestor(0).id,
         commit_ts |-> Ancestor(0).ts,
         upstream_commits |-> count(RepoLog(url), HeadRef),
         upstream_saas_commit_index |-> count(RepoLog(url), h)]

WellFormed(service) == {"name", "url", "hash"} \subseteq DOMAIN service

\* lines 249-254: one of the two calls of count raises for the service
CountRaises(service) ==
    LET log == RepoLog(_canonicalize_url(service.url))
        h == IF service.hash = <<>> THEN HeadRef ELSE service.hash
    IN  count_raises(log, HeadRef) \/ count_raises(log, h)

\* lines 228-231
UpstreamUrls(head) ==
    {_canonicalize_url(head[k].url) : k \in DOMAIN head} \ {Self}

\* services_with_info() and the copy into services_history
\* (services_hash_history, up to the loop), for a head snapshot that refers
\* to at most one upstream repository.  ok1, ok2 are the outcomes of the git
\* commands of the upstream mirror's clone_or_pull; count() fails when there
\* is no local copy.
Enrich(ok1, ok2) ==
    /\ pc = "constructed"
    /\ LET head == services(contexts, Ancestor(0))
           malformed == \E k \in DOMAIN head.val : "url" \notin DOMAIN head.val[k]
           urls == IF head.err # "none" \/ malformed THEN {} ELSE UpstreamUrls(head.val)
           made == GitMetrics(_canonicalize_url(UrlUp), TRUE, ok1, ok2)
       IN  /\ Cardinality(urls) <= 1
           /\ IF urls = {} THEN UNCHANGED mirrorvars ELSE Established(made)
           /\ IF head.err # "none"
              THEN /\ pc' = "raised" /\ error' = head.err
                   /\ UNCHANGED <<services_head, services_history>>
              ELSE IF \E k \in DOMAIN head.val : ~WellFormed(head.val[k])
              THEN /\ pc' = "raised" /\ error' = "KeyError"
                   /\ UNCHANGED <<services_head, services_history>>
              ELSE IF urls # {} /\ made.result # "returned"
              THEN /\ pc' = "raised" /\ error' = made.result
                   /\ UNCHANGED <<services_head, services_history>>
              ELSE IF urls # {} /\ made.dir.kind # "bare"
              THEN /\ pc' = "raised" /\ error' = "GitCommandError"
                   /\ UNCHANGED <<services_head, services_history>>
              ELSE IF \E k \in DOMAIN head.val : CountRaises(head.val[k])
              THEN /\ pc' = "raised" /\ error' = "GitCommandError"
                   /\ UNCHANGED <<services_head, services_history>>
              ELSE /\ pc' = "walk" /\ error' = error
                   /\ services_head' = [k \in DOMAIN head.val |-> WithInfo(k[1], head.val[k])]
                   /\ services_history' = services_head'
    /\ UNCHANGED <<history, upstream, contexts, services_found, index,
                   snapshot, snap_commit, poolvars, mainvars>>

\* the commit recorded for a service whose pin still matches at HEAD~index:
\* line 301 binds commit_hash to rev_parse(commit), line 311 binds it again
\* to the pinned hash of the ancestor's snapshot, line 319 stores it
RecordedCommit(rev, pinned) == pinned

\* lines 306-321, where a service whose pin differs at the ancestor takes the
\* ancestor's pin
WalkServiceTakesPin(service, record, services_commit, key, rev, ts) ==
    LET present == key \in DOMAIN services_commit /\ "hash" \in DOMAIN services_commit[key]
        commit_hash == IF present THEN services_commit[key].hash ELSE <<>>
    IN  IF ~present \/ commit_hash = <<>> \/ service.hash # commit_hash
           \/ ~is_sha(service.hash)
        THEN [found |-> TRUE, record |-> [record EXCEPT !.hash = commit_hash]]
        ELSE [found |-> FALSE,
              record |-> [record EXCEPT !.commit = RecordedCommit(rev, commit_hash),
                                        !.commit_ts = ts]]

\* lines 306-321, where a service the ancestor's snapshot lacks (KeyError,
\* lines 312-313) stays open
WalkServiceAbsentOpen(service, record, services_commit, key, rev, ts) ==
    LET present == key \in DOMAIN services_commit /\ "hash" \in DOMAIN services_commit[key]
        commit_hash == IF present THEN services_commit[key].hash ELSE <<>>
    IN  IF ~present THEN [found |-> FALSE, record |-> record]
        ELSE IF commit_hash = <<>> \/ service.hash # commit_hash \/ ~is_sha(service.hash)
        THEN [found |-> TRUE, record |-> record]
        ELSE [found |-> FALSE,
              record |-> [record EXCEPT !.commit = RecordedCommit(rev, commit_hash),
                                        !.commit_ts = ts]]

\* one service of the inner loop (lines 306-321): [found, record]
WalkService(service, record, services_commit, key, rev, ts) ==
    LET present == key \in DOMAIN services_commit /\ "hash" \in DOMAIN services_commit[key]
        commit_hash == IF present THEN services_commit[key].hash ELSE <<>>
    IN  IF ~present \/ commit_hash = <<>> \/ service.hash # commit_hash
           \/ ~is_sha(service.hash)
        THEN [found |-> TRUE, record |-> record]
        ELSE [found |-> FALSE,
              record |-> [record EXCEPT !.commit = RecordedCommit(rev, commit_hash),
                                        !.commit_ts = ts]]

\* lines 307-308: a service already in services_found is passed over
SkipNever(key, found) == FALSE

Skip(key, found) == key \in found

\* the test that ends the loop (line 296)
WalkDone(found, head) == Cardinality(found) = Cardinality(DOMAIN head)

\* one iteration of the loop over itertools.count(1) (lines 295-321)
WalkStep ==
    /\ pc = "walk"
    /\ IF WalkDone(services_found, services_head)
       THEN /\ pc' = "returned"
            /\ UNCHANGED <<error, services_history, services_found, index>>
       ELSE IF index >= Len(history)
       THEN /\ pc' = "raised" /\ error' = "GitCommandError"
            /\ UNCHANGED <<services_history, services_found, index>>
       ELSE LET commit == Ancestor(index)
                services_commit == services(contexts, commit)
                step == [k \in DOMAIN services_head |->
                            WalkService(services_head[k], services_history[k],
                                        services_commit.val, k, commit.id, commit.ts)]
            IN  IF services_commit.err # "none"
                THEN /\ pc' = "raised" /\ error' = services_commit.err
                     /\ UNCHANGED <<services_history, services_found, index>>
                ELSE /\ pc' = pc /\ error' = error
                     /\ index' = index + 1
                     /\ services_found' = services_found \cup
                            {k \in DOMAIN services_head :
                                ~Skip(k, services_found) /\ step[k].found}
                     /\ services_history' =
                            [k \in DOMAIN services_head |->
                                IF Skip(k, services_found) THEN services_history[k]
                                ELSE step[k].record]
    /\ UNCHANGED <<history, upstream, contexts, services_head, snapshot, snap_commit,
                   mirrorvars, poolvars, mainvars>>

-----------------------------------------------------------------------------
(* Spec: one deployment repository with a linear history is processed *)

HeadPins == {PinA, PinB, PinOdd, PinBranch, PinEmpty}

ServiceLists ==
    {<<>>, <<Element("s2", PinA)>>}
    \cup {<<Element("s1", p)>> : p \in HeadPins}
    \cup {<<Element("s1", p), Element("s2", PinA)>> : p \in {PinA, PinB, PinEmpty}}

Commit(i, dir, list, ok) ==
    [id |-> CommitId(i),
     ts |-> CommitTs(i),
     config |-> [ok |-> ok, contexts |-> <<[name |-> "c1", services_dir |-> dir]>>],
     tree |-> [d \in Dirs |-> IF d = dir THEN <<ServicesFile(list)>> ELSE <<>>]]

\* what one commit holds: every list of services under the directory d1, and
\* one under d2 (the context's directory was renamed at some commit)
CommitOptions ==
    [dir : {"d1"}, list : ServiceLists]
    \cup {[dir |-> "d2", list |-> <<Element("s1", PinA)>>]}

\* config.yaml is readable at every commit but perhaps HEAD
Histories(n) == [1..n -> CommitOptions] \X BOOLEAN

WalkIdle ==
    /\ pc = "start"
    /\ error = "none"
    /\ contexts = <<>>
    /\ services_head = EmptyDict
    /\ services_history = EmptyDict
    /\ services_found = {}
    /\ index = 1
    /\ snapshot = [err |-> "none", val |-> EmptyDict]
    /\ snap_commit = -1

Init ==
    /\ \E n \in 1..MaxCommits : \E h \in Histories(n) :
          history = [i \in 1..n |-> Commit(i, h[1][i].dir, h[1][i].list, i < n \/ h[2])]
    /\ upstream = UpstreamLog(WalkUpstream)
    /\ WalkIdle
    /\ MirrorIdle
    /\ MainIdle

Next ==
    \/ \E ok1 \in BOOLEAN : \E ok2 \in BOOLEAN : Construct(ok1, ok2)
    \/ \E ok1 \in BOOLEAN : \E ok2 \in BOOLEAN : Enrich(ok1, ok2)
    \/ WalkStep

Spec == Init /\ [][Next]_vars

-----------------------------------------------------------------------------
(* Properties of the walk (Spec) *)

\* the snapshot the engine takes at HEAD~i pins, for key k, the hash HEAD pins
SameHashAt(k, i) ==
    LET snap == services(contexts, Ancestor(i))
    IN  /\ snap.err = "none"
        /\ k \in DOMAIN snap.val
        /\ snap.val[k].hash = services_head[k].hash

\* the offset of the oldest commit of the unbroken run of commits, from HEAD
\* backward, that pin the hash HEAD pins for key k (0: HEAD itself)
RECURSIVE RunEnd(_, _)
RunEnd(k, i) ==
    IF i < Len(history) /\ SameHashAt(k, i) THEN RunEnd(k, i + 1) ELSE i - 1

Oldest(k) == Ancestor(RunEnd(k, 1))

ShaKeys == {k \in DOMAIN services_head : IsHexSha(services_head[k].hash)}

\* C1: when services_hash_history returns, the `commit` of every service
\* pinned to a 40-hex hash is the identifier of the deployment-repository
\* commit that is the oldest of the unbroken run of commits, from HEAD
\* backward, whose snapshot pins the same hash.
C1_CommitIsOldestOfRun ==
    pc = "returned" =>
        \A k \in ShaKeys : services_history[k].commit = Oldest(k).id

\* C2: when services_hash_history returns, the `commit_ts` of every service
\* pinned to a 40-hex hash is the timestamp of the oldest commit of the
\* unbroken run of commits, from HEAD backward, whose snapshot pins the same
\* hash; a commit beyond the run that pins the hash again changes nothing.
C2_CommitTsIsOldestOfRun ==
    pc = "returned" =>
        \A k \in ShaKeys : services_history[k].commit_ts = Oldest(k).ts

\* a return where one service's run reaches past HEAD and where the walk has
\* examined a commit that pins a service's hash again after a gap
C2_Witness ==
    /\ pc = "returned"
    /\ \E k \in ShaKeys :
          /\ RunEnd(k, 1) >= 1
          /\ services_history[k].commit_ts = Oldest(k).ts
          /\ services_history[k].commit_ts # Ancestor(0).ts
    /\ \E k \in ShaKeys : \E i \in 1..(index - 1) :
          /\ i > RunEnd(k, 1) + 1
          /\ SameHashAt(k, i)

\* C3: every iteration of the walk either finds the open set empty and
\* returns, or examines an ancestor offset inside the repository's history:
\* the walk never requests HEAD~index for index >= the number of commits.
C3_WalkStaysInsideHistory ==
    pc = "walk" => WalkDone(services_found, services_head) \/ index < Len(history)

\* C4: when services_hash_history returns, every service whose pin is not a
\* 40-character hex value has the `commit` and `commit_ts` of HEAD.
C4_NonShaKeepsHead ==
    pc = "returned" =>
        \A k \in DOMAIN services_head \ ShaKeys :
            /\ services_history[k].commit = Ancestor(0).id
            /\ services_history[k].commit_ts = Ancestor(0).ts

\* the fields of a record the walk has no assignment to
FrameFields == {"hash", "name", "url", "context", "upstream_commits",
                "upstream_saas_commit_index"}

\* C12: from the copy of the head records on, through every iteration of the
\* walk and at its return, services_history has the keys of the head
\* snapshot, and in every record hash, name, url, context, upstream_commits
\* and upstream_saas_commit_index are the values of the head enrichment.
C12_WalkFrame ==
    pc \in {"walk", "returned"} =>
        LET head == services(contexts, Ancestor(0)).val
        IN  /\ DOMAIN services_history = DOMAIN head
            /\ \A k \in DOMAIN head : \A f \in FrameFields :
                  services_history[k][f] = WithInfo(k[1], head[k])[f]

\* the walk has returned after two iterations, with two records, one of them
\* moved off the head commit and one closed on a pin that differs
C12_Witness ==
    /\ pc = "returned"
    /\ index >= 3
    /\ Cardinality(DOMAIN services_history) = 2
    /\ \E k \in DOMAIN services_history :
          services_history[k].commit_ts # Ancestor(0).ts
    /\ \E k \in DOMAIN services_history : \E i \in 1..(index - 1) :
          LET snap == services(contexts, Ancestor(i)).val
          IN  k \in DOMAIN snap /\ snap[k].hash # services_head[k].hash

\* the key k of the head snapshot is not in the snapshot of HEAD~1
AbsentAtOffset1(k) ==
    /\ Len(history) >= 2
    /\ k \notin DOMAIN services(contexts, Ancestor(1)).val

\* C13: once the walk has examined HEAD~1, a service of the head snapshot
\* that the snapshot of HEAD~1 lacks is out of the open set, and its record
\* is the head record, commit and commit_ts included, at every later
\* iteration and at the return, whatever the older snapshots hold.
C13_AbsentAtOffset1KeepsHead ==
    (pc \in {"walk", "returned"} /\ index >= 2) =>
        \A k \in DOMAIN services_head :
            AbsentAtOffset1(k) =>
                /\ k \in services_found
                /\ services_history[k] = services_head[k]
                /\ services_history[k].commit = Ancestor(0).id
                /\ services_history[k].commit_ts = Ancestor(0).ts

\* the walk has returned after examining HEAD~2, which pins for a service
\* that HEAD~1 lacks the hash HEAD pins
C13_Witness ==
    /\ pc = "returned"
    /\ index = 3
    /\ \E k \in ShaKeys :
          /\ AbsentAtOffset1(k)
          /\ SameHashAt(k, 2)
          /\ services_history[k] = services_head[k]

\* C17: when no service of the head snapshot is pinned to a 40-hex hash, the
\* walk examines no ancestor: the offset stays at 1 and the walk does not
\* raise.
C17_NoAncestorWithoutShaPins ==
    (ShaKeys = {} /\ pc \in {"walk", "returned", "raised"}) =>
        /\ index = 1
        /\ ~(pc = "raised" /\ DOMAIN services_head # {})

-----------------------------------------------------------------------------
(* SpecEnrich: the head snapshot of a one-commit deployment repository is   *)
(* enriched against an upstream repository of 1..MaxUpstream commits        *)

InitEnrich ==
    /\ \E n \in 1..MaxUpstream :
       \E p \in Range(UpstreamLog(n))
                 \cup {PinEmpty, PinBranch, PinOdd, PinNone, PinMissing} :
       \E ok \in BOOLEAN :
          /\ history = <<Commit(1, "d1", <<Element("s1", p)>>, ok)>>
          /\ upstream = UpstreamLog(n)
    /\ WalkIdle
    /\ MirrorIdle
    /\ MainIdle

NextEnrich ==
    \/ \E ok1 \in BOOLEAN : \E ok2 \in BOOLEAN : Construct(ok1, ok2)
    \/ \E ok1 \in BOOLEAN : \E ok2 \in BOOLEAN : Enrich(ok1, ok2)

SpecEnrich == InitEnrich /\ [][NextEnrich]_vars

\* the number of commits between the root of the log and the pinned commit
\* (0 for the root itself), for a pin that is a commit of the log
PinDistance(log, pin) == (CHOOSE j \in 1..Len(log) : log[j] = pin) - 1

\* C5: after enrichment of the head snapshot, upstream_commits of every
\* service is the total number N of commits of its upstream repository, and
\* upstream_saas_commit_index is k when the pin is the commit k commits from
\* the upstream's root.
C5_UpstreamCounts ==
    pc = "walk" =>
        \A k \in DOMAIN services_head :
            LET log == RepoLog(_canonicalize_url(services_head[k].url))
                pin == services_head[k].hash
            IN  /\ services_head[k].upstream_commits = Len(log)
                /\ pin \in Range(log) =>
                     services_head[k].upstream_saas_commit_index = PinDistance(log, pin)

\* C14: the index count gives a commit of a linear upstream history is the
\* number of commits after the root up to and including it: 0 for the root,
\* one more than the count of its parent for any other commit, and never
\* less than the count of an older commit nor more than the count of HEAD.
C14_CountFromRoot ==
    pc = "walk" =>
        \A k \in DOMAIN services_head :
            LET log == RepoLog(_canonicalize_url(services_head[k].url))
                pin == services_head[k].hash
                idx == services_head[k].upstream_saas_commit_index
            IN  pin \in Range(log) =>
                    LET j == CHOOSE j \in 1..Len(log) : log[j] = pin
                    IN  /\ j = 1 => idx = 0
                        /\ j > 1 => idx = count(log, log[j - 1]) + 1
                        /\ idx = Cardinality({i \in 1..Len(log) : 1 < i /\ i <= j})
                        /\ \A i \in 1..j : count(log, log[i]) <= idx
                        /\ idx <= services_head[k].upstream_commits

\* the head snapshot is enriched for a pin that is the fourth commit of an
\* upstream of MaxUpstream commits
C14_Witness ==
    /\ pc = "walk"
    /\ Len(upstream) = MaxUpstream
    /\ \E k \in DOMAIN services_head :
          /\ services_head[k].hash = upstream[4]
          /\ services_head[k].upstream_saas_commit_index = 3

\* the head snapshot is enriched for a pin that is the root of the upstream
C14_WitnessRoot ==
    /\ pc = "walk"
    /\ Len(upstream) >= 2
    /\ \E k \in DOMAIN services_head :
          /\ services_head[k].hash = upstream[1]
          /\ services_head[k].upstream_saas_commit_index = 0

\* C15: once the mirror of the upstream is established, the enrichment of a
\* service whose pin is empty or names no commit of the upstream does not
\* raise, and its upstream_saas_commit_index is its upstream_commits.
C15_UnresolvablePinCountsHead ==
    (establishments = 2 /\ last.result = "returned" /\ fs[PathUp].kind = "bare") =>
        LET head == services(contexts, Ancestor(0)).val
        IN  \A k \in DOMAIN head :
                (head[k].hash = <<>> \/ rev_parse(upstream, head[k].hash) = 0) =>
                    /\ pc = "walk"
                    /\ services_head[k].upstream_saas_commit_index =
                           services_head[k].upstream_commits

-----------------------------------------------------------------------------
(* SpecCatalog: services(commit) is called on the commits of a deployment   *)
(* repository whose files and contexts are of every shape                   *)

\* a call of services(commit) for commit = HEAD~i on the constructed object
Snapshot(i) ==
    /\ pc = "constructed"
    /\ i < Len(history)
    /\ snapshot' = services(contexts, Ancestor(i))
    /\ snap_commit' = i
    /\ UNCHANGED <<history, upstream, pc, error, contexts, services_head,
                   services_history, services_found, index, mirrorvars, poolvars,
                   mainvars>>

Scalar == [mapping |-> FALSE, d |-> EmptyDict]
NoName == Mapping([url |-> UrlUp, hash |-> PinA])
NameOnly == Mapping([name |-> "s2"])

File(kind) == [kind |-> kind, services |-> <<>>]

\* the listings of the directory d1
D1Files ==
    {<<File(k)>> : k \in {"git_error", "scanner_error", "parser_error", "not_dict",
                          "no_services", "not_list"}}
    \cup {<<ServicesFile(l)>> : l \in {<<Element("s1", PinA)>>, <<Scalar>>, <<NoName>>,
                                       <<NameOnly>>, <<Element("s1", PinA), NameOnly>>}}
    \cup {<<File("scanner_error"), ServicesFile(<<Element("s1", PinA)>>)>>}

\* the contexts of config.yaml
ContextLists ==
    {<<[name |-> "c1", services_dir |-> "d1"]>>,
     <<[name |-> "c1", services_dir |-> "d2"]>>,
     <<[name |-> "c1", services_dir |-> "d1"], [name |-> "c2", services_dir |-> "d2"]>>}

CatalogCommit(i, ctxs, files, ok) ==
    [id |-> CommitId(i),
     ts |-> CommitTs(i),
     config |-> [ok |-> ok, contexts |-> ctxs],
     tree |-> [d \in Dirs |-> IF d = "d1" THEN files
                              ELSE <<ServicesFile(<<Element("s1", PinB)>>)>>]]

InitCatalog ==
    /\ \E n \in 1..MaxCatalogCommits :
       \E h \in [1..n -> [ctxs : ContextLists, files : D1Files]] :
       \E ok \in BOOLEAN :
          history = [i \in 1..n |-> CatalogCommit(i, h[i].ctxs, h[i].files, i < n \/ ok)]
    /\ upstream = UpstreamLog(WalkUpstream)
    /\ WalkIdle
    /\ MirrorIdle
    /\ MainIdle

NextCatalog ==
    \/ \E ok1 \in BOOLEAN : \E ok2 \in BOOLEAN : Construct(ok1, ok2)
    \/ \E i \in 0..(MaxCatalogCommits - 1) : Snapshot(i)

SpecCatalog == InitCatalog /\ [][NextCatalog]_vars

\* C7: whatever the files hold, services(commit) raises no error, and only
\* elements that are mappings with `name`, `url` and `hash` are in the snapshot.
C7_ServicesNeverRaises ==
    snap_commit >= 0 =>
        /\ snapshot.err = "none"
        /\ \A k \in DOMAIN snapshot.val : WellFormed(snapshot.val[k])

\* C8: services(commit) is the snapshot built from the contexts that
\* config.yaml declares as of `commit`.
C8_ContextsOfTheCommit ==
    snap_commit >= 0 =>
        snapshot = services(Ancestor(snap_commit).config.contexts, Ancestor(snap_commit))

-----------------------------------------------------------------------------
(* SpecMirror: processes run one after the other, each establishing the     *)
(* mirror of one repository, bare or not, any number of times               *)

InitMirror ==
    /\ history = <<>>
    /\ upstream = <<>>
    /\ WalkIdle
    /\ PoolIdle
    /\ MainIdle
    /\ fs = Cache(FALSE)
    /\ pid \in Pids
    /\ runs = 1
    /\ establishments = 0
    /\ refreshes = 0
    /\ net_ops = 0
    /\ last = NoEstablishment

NextMirror ==
    \/ \E bare \in BOOLEAN : \E ok1 \in BOOLEAN : \E ok2 \in BOOLEAN :
          Establish(UrlUp, bare, ok1, ok2)
    \/ \E p \in Pids : NewRun(p)

SpecMirror == InitMirror /\ [][NextMirror]_vars

\* C6: when the clone or refresh command of an establishment exits non-zero,
\* the establishment raises; it does not return a mirror object.
C6_FailureIsRaised ==
    last.result = "returned" => last.exit = 0

\* C9: once the running process has completed a refresh of the mirror, no
\* later establishment in that process completes another refresh or runs a
\* network command.
C9_RefreshAtMostOnce ==
    [][(refreshes >= 1 /\ runs' = runs) =>
          (refreshes' = refreshes /\ net_ops' = net_ops)]_vars

\* the process has completed a refresh and a later establishment skipped it
C9_Witness ==
    /\ refreshes = 1
    /\ last.op = "skip"
    /\ last.result = "returned"

\* C18: an establishment skips the refresh of an existing mirror only when
\* the running process has itself completed a refresh of it, whatever
\* process identifiers the earlier runs on the cache directory had.
C18_SkipOnlyAfterOwnRefresh ==
    last.op = "skip" => refreshes >= 1

\* C19: an establishment whose refresh raises GitCommandError leaves the
\* cache directory as it was, git_metrics_ts_pull included, so that the next
\* establishment of the same mirror in the process does not skip the refresh.
C19_FailedRefreshLeavesUnmarked ==
    [][\A bare \in BOOLEAN :
          ((\E ok1 \in BOOLEAN : \E ok2 \in BOOLEAN : Establish(UrlUp, bare, ok1, ok2))
             /\ last'.op = "pull" /\ last'.result = "GitCommandError")
          => (fs' = fs /\ ~PullSkips(fs'[PathUp], bare, pid'))]_vars

\* a refresh of an existing mirror has failed on a git command, in a process
\* that has not refreshed it
C19_Witness ==
    /\ last.op = "pull"
    /\ last.result = "GitCommandError"
    /\ last.exit = 1
    /\ fs[PathUp].kind \in {"bare", "working"}
    /\ fs[PathUp].marker # pid
    /\ refreshes = 0

-----------------------------------------------------------------------------
(* SpecPool: services_with_info, lines 228-245: the mirrors of the upstream *)
(* URLs are established by the threads of pool.map when poolsize > 0, one   *)
(* after the other when poolsize = 0                                        *)

Idle == [phase |-> "idle", url |-> <<>>, path |-> <<>>]

Busy(w) == workers[w].phase \in {"cloning", "pulling"}

\* lines 228-231 without _canonicalize_url
upstream_urls_raw(urls) == urls \ {Self}

\* lines 228-231: the distinct canonical URLs but the deployment repository's
upstream_urls(urls) == {_canonicalize_url(u) : u \in urls} \ {Self}

\* the GitMetrics object fetch_repo_metrics returns for repo (line 209)
fetch_repo_metrics(repo) == [work_dir |-> _short_repo(repo).val, bare |-> TRUE]

\* one more call of fetch_repo_metrics on url
Opened(url) ==
    DictPut(opened, url, IF url \in DOMAIN opened THEN opened[url] + 1 ELSE 1)

\* a thread takes the next URL: fetch_repo_metrics -> GitMetrics.__init__ up
\* to the git command of clone() or pull()
Take(w, url) ==
    /\ w \in DOMAIN workers
    /\ workers[w].phase = "idle"
    /\ url \in pending
    /\ pending' = pending \ {url}
    /\ opened' = Opened(url)
    /\ LET work_dir == _short_repo(url)
           d == fs[work_dir.val]
       IN  IF work_dir.err # "none"
           THEN /\ workers' = [workers EXCEPT ![w] =
                                  [phase |-> "failed", url |-> url, path |-> <<>>]]
                /\ UNCHANGED <<mirrorvars, repo_metrics>>
           ELSE IF ~GitDirExists(d, TRUE)
           THEN /\ workers' = [workers EXCEPT ![w] =
                                  [phase |-> "cloning", url |-> url, path |-> work_dir.val]]
                /\ UNCHANGED <<mirrorvars, repo_metrics>>
           ELSE IF PullSkips(d, TRUE, pid)
           THEN /\ workers' = workers
                /\ repo_metrics' = DictPut(repo_metrics, url, fetch_repo_metrics(url))
                /\ Established(GitMetrics(url, TRUE, TRUE, TRUE))
           ELSE /\ workers' = [workers EXCEPT ![w] =
                                  [phase |-> "pulling", url |-> url, path |-> work_dir.val]]
                /\ UNCHANGED <<mirrorvars, repo_metrics>>
    /\ UNCHANGED <<walkvars, mainvars, service_urls>>

\* the git command of a thread ends with the outcomes ok1, ok2
Finish(w, ok1, ok2) ==
    /\ w \in DOMAIN workers
    /\ Busy(w)
    /\ LET path == workers[w].path
           did == IF workers[w].phase = "cloning" THEN clone(fs[path], TRUE, ok1)
                  ELSE refresh(fs[path], TRUE, pid, ok1, ok2)
       IN  /\ Established([path |-> path, dir |-> did.dir, op |-> did.op,
                           exit |-> did.exit, net |-> did.net,
                           refreshed |-> did.refreshed,
                           result |-> IF did.raised THEN "GitCommandError"
                                      ELSE "returned"])
           /\ IF did.raised
              THEN /\ workers' = [workers EXCEPT ![w].phase = "failed"]
                   /\ UNCHANGED repo_metrics
              ELSE /\ workers' = [workers EXCEPT ![w] = Idle]
                   /\ repo_metrics' = DictPut(repo_metrics, workers[w].url,
                                              fetch_repo_metrics(workers[w].url))
    /\ UNCHANGED <<walkvars, mainvars, pending, service_urls, opened>>

\* poolsize = 0 (lines 240-243): the next URL of the comprehension, whose
\* order over the list of a set is any; an exception ends the comprehension
Sequential(url, ok1, ok2) ==
    /\ workers = <<>>
    /\ last.result \in {"none", "returned"}
    /\ url \in pending
    /\ pending' = pending \ {url}
    /\ opened' = Opened(url)
    /\ LET made == GitMetrics(url, TRUE, ok1, ok2)
       IN  /\ Established(made)
           /\ repo_metrics' = IF made.result = "returned"
                              THEN DictPut(repo_metrics, url, fetch_repo_metrics(url))
                              ELSE repo_metrics
    /\ UNCHANGED <<walkvars, mainvars, workers, service_urls>>

\* the object of the deployment repository itself (line 245)
SelfMirror == [work_dir |-> PathSelf, bare |-> FALSE]

Resolved == Self \in DOMAIN repo_metrics

\* line 245, reached when pool.map or the comprehension has returned
Join ==
    /\ ~Resolved
    /\ pending = {}
    /\ \A w \in DOMAIN workers : workers[w].phase = "idle"
    /\ workers = <<>> => last.result \in {"none", "returned"}
    /\ repo_metrics' = DictPut(repo_metrics, Self, SelfMirror)
    /\ UNCHANGED <<walkvars, mainvars, mirrorvars, pending, workers, service_urls,
                   opened>>

\* service URLs as the files give them
RawUrls ==
    {<<GithubPrefix, "a", "-", "b", "/", "c">>,
     <<GithubPrefix, "a", "/", "b", "-", "c">>,
     <<GithubPrefix, "a", "/", "b">>,
     <<GithubPrefix, "a", "/", "b", "/">>,
     <<GitlabPrefix, "a", "/", "b">>}

\* service URLs that name the deployment repository itself
OwnUrls == {UrlSelf, Self}

\* upstream_urls: sets of distinct canonical URLs (lines 228-231)
UrlSets == {{_canonicalize_url(u) : u \in raw} : raw \in SUBSET RawUrls} \ {{}}

PoolPaths == {_short_repo(u).val : u \in RawUrls}

InitPool ==
    /\ history = <<>>
    /\ upstream = <<>>
    /\ WalkIdle
    /\ MainIdle
    /\ \E raw \in SUBSET RawUrls : \E own \in SUBSET OwnUrls :
          /\ raw # {}
          /\ service_urls = raw \cup own
          /\ pending = upstream_urls(service_urls)
    /\ \E poolsize \in 0..MaxPool : workers = [w \in 1..poolsize |-> Idle]
    /\ repo_metrics = EmptyDict
    /\ opened = EmptyDict
    /\ \E warm \in BOOLEAN :
          fs = [d \in PoolPaths \cup {PathSelf} |->
                   IF d = PathSelf THEN [kind |-> "working", marker |-> 1]
                   ELSE IF warm THEN [kind |-> "bare", marker |-> 0] ELSE NoDir]
    /\ pid = 1
    /\ runs = 1
    /\ establishments = 0
    /\ refreshes = 0
    /\ net_ops = 0
    /\ last = NoEstablishment

NextPool ==
    \/ \E w \in 1..MaxPool : \E url \in pending : Take(w, url)
    \/ \E w \in 1..MaxPool : \E ok1 \in BOOLEAN : \E ok2 \in BOOLEAN : Finish(w, ok1, ok2)
    \/ \E url \in pending : \E ok1 \in BOOLEAN : \E ok2 \in BOOLEAN : Sequential(url, ok1, ok2)
    \/ Join

SpecPool == InitPool /\ [][NextPool]_vars

\* C10: no two threads of the pool run a git command on the same directory
\* at the same time; distinct canonical URLs have distinct directories.
C10_DisjointDirectories ==
    \A w1 \in DOMAIN workers : \A w2 \in DOMAIN workers :
        (w1 # w2 /\ Busy(w1) /\ Busy(w2)) => workers[w1].path # workers[w2].path

\* C11: when the resolver has returned, the keys of repo_metrics are the
\* distinct canonical URLs of the head snapshot's services and the deployment
\* repository's own URL; every other URL has had one call of
\* fetch_repo_metrics, which made a bare GitMetrics on its directory; the own
\* URL has had none and is mapped to the deployment repository's object; the
\* mapping depends on the URLs alone, not on poolsize or the threads' order.
C11_ResolverMapping ==
    Resolved =>
        /\ DOMAIN repo_metrics = {_canonicalize_url(u) : u \in service_urls} \cup {Self}
        /\ \A u \in DOMAIN repo_metrics \ {Self} :
              /\ repo_metrics[u] = [work_dir |-> _short_repo(u).val, bare |-> TRUE]
              /\ u \in DOMAIN opened /\ opened[u] = 1
        /\ repo_metrics[Self] = [work_dir |-> PathSelf, bare |-> FALSE]
        /\ Self \notin DOMAIN opened

\* the resolver has returned from pool.map with two threads, for a head
\* snapshot that names the deployment repository and the same upstream
\* repository under two spellings, and another upstream repository
C11_Witness ==
    /\ Resolved
    /\ Len(workers) = 2
    /\ service_urls \cap OwnUrls # {}
    /\ Cardinality(service_urls) > Cardinality(DOMAIN repo_metrics)
    /\ Cardinality(DOMAIN repo_metrics) >= 3
    /\ net_ops >= 2

\* the resolver has returned with poolsize = 0 for the same kind of snapshot
C11_SequentialReturn ==
    /\ Resolved
    /\ workers = <<>>
    /\ service_urls \cap OwnUrls # {}
    /\ Cardinality(DOMAIN repo_metrics) >= 3

-----------------------------------------------------------------------------
(* SpecMain: push-saas-metrics.py, the loop over the deployment             *)
(* repositories that get_saas_repos returns                                 *)

RepoX == <<GithubPrefix, "o", "/", "x">>
RepoY == <<GithubPrefix, "o", "/", "y">>
RepoZ == <<GithubPrefix, "o", "/", "z">>
RepoU == <<GithubPrefix, "o", "/", "u">>

Component(resource, url) == [resource |-> resource, url |-> url]

\* an app of the answer: codeComponents is None, or a list of components
AppNone == [none |-> TRUE, codeComponents |-> <<>>]
App(components) == [none |-> FALSE, codeComponents |-> components]

AppChoices ==
    {AppNone,
     App(<<>>),
     App(<<Component("saasrepo", RepoX)>>),
     App(<<Component("saasrepo", RepoY), Component("upstream", RepoU)>>),
     App(<<Component("upstream", RepoU), Component("saasrepo", RepoZ)>>),
     App(<<Component("saasrepo", RepoX), Component("saasrepo", RepoY)>>)}

\* lines 42-47
RECURSIVE get_saas_repos(_)
get_saas_repos(a) ==
    IF a = <<>> THEN <<>>
    ELSE LET app == Head(a)
             components == IF app.none THEN <<>> ELSE app.codeComponents
             saas == SelectSeq(components, LAMBDA c : c.resource = "saasrepo")
         IN  [i \in 1..Len(saas) |-> saas[i].url] \o get_saas_repos(Tail(a))

\* get_saas_repos(config)[:2], the list the loop iterates over (line 98)
LoopItems(a) ==
    LET repos == get_saas_repos(a)
    IN  SubSeq(repos, 1, IF Len(repos) < SliceEnd THEN Len(repos) ELSE SliceEnd)

\* the exceptions of lines 105-112: SaasConfigReadError, GitCommandError, any other
Exceptions == {"SaasConfigReadError", "GitCommandError", "KeyError"}

\* the context of the services of a deployment repository
ContextOf(repo) == repo[Len(repo)]

ServiceRecord(context, name, n, k, ts) ==
    [context |-> context, name |-> name, upstream_commits |-> n,
     upstream_saas_commit_index |-> k, commit_ts |-> ts]

\* the records services_hash_history has for a deployment repository
RepoServices(repo) ==
    IF repo = RepoX
    THEN <<ServiceRecord(ContextOf(repo), "s1", 9, 3, 1001),
           ServiceRecord(ContextOf(repo), "s2", 4, 4, 1002)>>
    ELSE IF repo = RepoY
    THEN <<ServiceRecord(ContextOf(repo), "s1", 7, 0, 1003)>>
    ELSE <<>>

\* lines 124-141
RECURSIVE SetGauges(_, _)
SetGauges(g, records) ==
    IF records = <<>> THEN g
    ELSE LET s == Head(records)
             g1 == DictPut(g, <<"saas_upstream_commits", s.context, s.name>>,
                           s.upstream_commits)
             g2 == DictPut(g1, <<"saas_commit_index", s.context, s.name>>,
                           s.upstream_saas_commit_index)
             g3 == DictPut(g2, <<"saas_commit_ts", s.context, s.name>>, s.commit_ts)
         IN  SetGauges(g3, Tail(records))

\* the except branch with the gauges of the first service set
GaugesPartial(g, records) == SetGauges(g, SubSeq(records, 1, 1))

\* the except branch (lines 104-122) sets no gauge of a service
GaugesOnError(g, records) == g

\* one iteration of the loop (lines 98-141): lines 102-103 return the
\* repository's records or raise an exception
Process(outcome) ==
    /\ exit_status = -1
    /\ Len(processed) < Len(LoopItems(apps))
    /\ LET saas_repo == LoopItems(apps)[Len(processed) + 1]
       IN  /\ processed' = Append(processed, [saas_repo |-> saas_repo, outcome |-> outcome])
           /\ IF outcome # "returned"
              THEN /\ g_invalid_repos' = DictPut(g_invalid_repos, saas_repo, 1)
                   /\ build_error' = TRUE
                   /\ gauges' = GaugesOnError(gauges, RepoServices(saas_repo))
              ELSE /\ gauges' = SetGauges(gauges, RepoServices(saas_repo))
                   /\ UNCHANGED <<g_invalid_repos, build_error>>
    /\ UNCHANGED <<apps, exit_status, walkvars, mirrorvars, poolvars>>

\* the end of the loop, push_to_gateway and the exit (lines 143-149)
Exit ==
    /\ exit_status = -1
    /\ Len(processed) = Len(LoopItems(apps))
    /\ exit_status' = IF build_error THEN 1 ELSE 0
    /\ UNCHANGED <<apps, processed, gauges, g_invalid_repos, build_error,
                   walkvars, mirrorvars, poolvars>>

InitMain ==
    /\ history = <<>>
    /\ upstream = <<>>
    /\ WalkIdle
    /\ MirrorIdle
    /\ \E n \in 0..MaxApps : apps \in [1..n -> AppChoices]
    /\ processed = <<>>
    /\ gauges = EmptyDict
    /\ g_invalid_repos = EmptyDict
    /\ build_error = FALSE
    /\ exit_status = -1

NextMain ==
    \/ \E outcome \in Exceptions \cup {"returned"} : Process(outcome)
    \/ Exit

SpecMain == InitMain /\ [][NextMain]_vars

\* the iterations that processed the repository
Visits(repo) == {j \in 1..Len(processed) : processed[j].saas_repo = repo}

\* every gauge of every service of the repository is set
GaugesSet(repo) ==
    \A i \in 1..Len(RepoServices(repo)) :
        \A g \in {"saas_upstream_commits", "saas_commit_index", "saas_commit_ts"} :
            <<g, ContextOf(repo), RepoServices(repo)[i].name>> \in DOMAIN gauges

\* C16: for every iteration of the loop whose processing raised, the
\* repository's saas_invalid_repos is 1 and the build is marked as failed; no
\* gauge of its services is set, unless another iteration on the same
\* repository returned; and when the loop has ended every later item of the
\* iterated list has had its iteration.
C16_FailureIsolatedPerRepository ==
    \A i \in 1..Len(processed) :
        processed[i].outcome # "returned" =>
            LET repo == processed[i].saas_repo
            IN  /\ repo \in DOMAIN g_invalid_repos /\ g_invalid_repos[repo] = 1
                /\ build_error
                /\ (\A j \in Visits(repo) : processed[j].outcome # "returned") =>
                       \A key \in DOMAIN gauges : key[2] # ContextOf(repo)
                /\ exit_status # -1 =>
                       \A j \in (i + 1)..Len(LoopItems(apps)) :
                           /\ j <= Len(processed)
                           /\ processed[j].saas_repo = LoopItems(apps)[j]

\* the loop has ended: the first repository, which has services, raised, and
\* the second one returned and has its gauges
C16_Witness ==
    /\ exit_status = 1
    /\ Len(processed) = 2
    /\ processed[1].outcome = "GitCommandError"
    /\ RepoServices(processed[1].saas_repo) # <<>>
    /\ processed[2].outcome = "returned"
    /\ processed[2].saas_repo # processed[1].saas_repo
    /\ gauges # EmptyDict
    /\ GaugesSet(processed[2].saas_repo)

\* C20: when the loop has ended, every repository the discovery query
\* returned has been processed once, and has its services' gauges set or its
\* saas_invalid_repos at 1.
C20_EveryDiscoveredRepositoryProcessed ==
    exit_status # -1 =>
        \A i \in 1..Len(get_saas_repos(apps)) :
            LET repo == get_saas_repos(apps)[i]
            IN  /\ Cardinality(Visits(repo)) = 1
                /\ \/ repo \in DOMAIN g_invalid_repos /\ g_invalid_repos[repo] = 1
                   \/ GaugesSet(repo)

====
